---- MODULE Spec2Model ----
(***************************************************************************)
(* Download session manager of the video downloader: the create-download   *)
(* POST handler, the process event handlers it registers (stdout/stderr    *)
(* 'data', 'close', 'error'), the progress simulation timer, the ceiling   *)
(* timer and the GET handler (poll and retrieve).                          *)
(*                                                                         *)
(* Two implementations of the route are in the repository:                 *)
(*   impl = "route" : src/app/api/download/route.ts (MongoDB or the        *)
(*                    in-memory fallbackSessions map)                      *)
(*   impl = "atlas" : src/unnamed/part_001 (MongoDB only, ceiling timer,   *)
(*                    base-name search at close)                           *)
(* One session is modelled; every handler is a closure over that session.  *)
(* Every `await` of a store operation is a separate step: the operation is *)
(* applied and the handler continues when the step is taken.               *)
(***************************************************************************)
EXTENDS Integers, Sequences, FiniteSets, Bags, TLC

\* ------------------------------------------------------------------ bounds
MaxChunks == 2      \* output chunks emitted by one download process
MaxPending == 1     \* handlers suspended on a store write at the same time
MaxStreams == 2     \* retrieve requests served for the session
MaxFormats == 4     \* formats in the tool's metadata of one video
MaxOffered == 3     \* formats a site offers for one download
MaxSessions == 2    \* downloads that write into the same output directory
MaxCallers == 3     \* request handlers that call connectToDatabase
MaxAttempts == 2    \* calls of mongoose.connect
MaxPolls == 4       \* progress requests of the page for one download

\* --------------------------------------------------------- program constants
StepCap == 4        \* simulationStep >= 4 is the last branch of the tick

Max(a, b) == IF a >= b THEN a ELSE b
Min(a, b) == IF a <= b THEN a ELSE b

\* ---------------------------------------------------------------- records
\* A session record: the MongoDB document, or the FallbackSession object.
Rec(st, p, e, tf) == [status |-> st, progress |-> p, error |-> e, tempFile |-> tf]
NoRec == Rec("absent", 0, "none", "none")

\* Files of the session in the output directory: the exact -o path, and two
\* other names that start with the same base name (a .part file, a file with
\* another extension).
OutFiles == {"exact", "part", "alt"}

\* ------------------------------------------------------- output chunk text
\* A chunk is a sequence of tokens; a token is a marker or a percentage "n%".
Tok(t) == [t |-> t, n |-> 0]
Pct(n) == [t |-> "pct", n |-> n]
DL == Tok("[download]")
DEST == Tok("Destination:")
OF == Tok("of")
INTOK == Tok("in ")
ALREADY == Tok("has already been downloaded")
MERGE == Tok("Merging formats")
DELETING == Tok("Deleting original file")
TXT == Tok("text")

Chunks ==
  { <<DL, DEST, TXT>>,
    <<DL, Pct(50), OF>>,
    <<DL, Pct(95), OF>>,
    <<DL, Pct(100), OF, INTOK>>,
    <<MERGE>> }

NoMatch == 0 - 1

Includes(o, t) == \E i \in 1..Len(o) : o[i] = t
IsPct(o, i) == i \in 1..Len(o) /\ o[i].t = "pct"
FirstIdx(S) == CHOOSE i \in S : \A j \in S : i <= j

\* /\[download\]\s+(\d+(?:\.\d+)?)%/
ReDownloadPct(o) == {i \in 1..Len(o) : o[i] = DL /\ IsPct(o, i + 1)}
\* /\[download\]\s+(\d+(?:\.\d+)?)%\s+of/   (part_001 only)
ReDownloadPctOf(o) == {i \in ReDownloadPct(o) : i + 2 <= Len(o) /\ o[i + 2] = OF}
\* /(\d+(?:\.\d+)?)%\s+of/
RePctOf(o) == {i \in 1..Len(o) : IsPct(o, i) /\ i + 1 <= Len(o) /\ o[i + 1] = OF}
\* /(\d+(?:\.\d+)?)%/  and  /(\d+)%/
RePct(o) == {i \in 1..Len(o) : IsPct(o, i)}

\* The value captured by the first pattern that matches, or NoMatch.
progressMatch(o, im) ==
  IF ReDownloadPct(o) # {} THEN o[FirstIdx(ReDownloadPct(o)) + 1].n
  ELSE IF im = "atlas" /\ ReDownloadPctOf(o) # {} THEN o[FirstIdx(ReDownloadPctOf(o)) + 1].n
  ELSE IF RePctOf(o) # {} THEN o[FirstIdx(RePctOf(o))].n
  ELSE IF RePct(o) # {} THEN o[FirstIdx(RePct(o))].n
  ELSE NoMatch

\* output.includes('100%')
Includes100(o) == \E i \in 1..Len(o) : IsPct(o, i) /\ o[i].n = 100
\* output.includes('[download] 100%')
IncludesDownload100(o) == \E i \in ReDownloadPct(o) : o[i + 1].n = 100

\* the staircase for download activity without a percentage
Staircase(p) ==
  IF p < 10 THEN 10
  ELSE IF p < 25 THEN 25
  ELSE IF p < 50 THEN 50
  ELSE IF p < 75 THEN 75
  ELSE IF p < 100 THEN 90
  ELSE p

\* newProgress without the 'has already been downloaded' rule.
newProgress_NoAlready(o, cur, im) ==
  LET m == progressMatch(o, im)
      a == IF m # NoMatch THEN Max(cur, m) ELSE cur
      b == IF Includes(o, DL) /\ Includes(o, DEST) THEN Max(a, 5) ELSE a
      c == IF Includes(o, DL) /\ Includes100(o) THEN 100 ELSE b
  IN IF c = cur /\ Includes(o, DL) THEN Staircase(cur) ELSE c

\* newProgress as the handler has computed it when it reaches
\* "Update progress if it changed"; cur is session.progress as the handler
\* reads it.
newProgress(o, cur, im) ==
  LET m == progressMatch(o, im)
      a == IF m # NoMatch THEN Max(cur, m) ELSE cur
      b == IF Includes(o, DL) /\ Includes(o, DEST) THEN Max(a, 5) ELSE a
      c == IF Includes(o, DL) /\ Includes100(o) THEN 100 ELSE b
      d == IF Includes(o, ALREADY) THEN 100 ELSE c
  IN IF d = cur /\ Includes(o, DL) THEN Staircase(cur) ELSE d

\* The store writes the handler makes for a chunk, in order, each one awaited.
\* The first one, present when newProgress changed, is followed by the reset
\* of lastRealProgress and simulationStep.
ProgressChanged(o, cur, im) == newProgress(o, cur, im) # cur
ForcedWrites(o, im) ==
  (IF Includes(o, MERGE) \/ Includes(o, DELETING) THEN <<100>> ELSE <<>>)
  \o (IF im = "atlas" /\ IncludesDownload100(o) /\ Includes(o, INTOK) THEN <<100>> ELSE <<>>)
ParseWrites_NoCap(o, cur, im) ==
  (IF ProgressChanged(o, cur, im) THEN <<newProgress(o, cur, im)>> ELSE <<>>)
  \o ForcedWrites(o, im)
ParseWrites(o, cur, im) ==
  (IF ProgressChanged(o, cur, im) THEN <<Min(newProgress(o, cur, im), 100)>> ELSE <<>>)
  \o ForcedWrites(o, im)

\* the checkpoints of the simulation, by step
Checkpoints == <<25, 50, 75, 90>>

\* simulatedProgress with the last branch writing 95.
simulatedProgress_Last95(step, p) ==
  IF step = 1 /\ p < 25 THEN 25
  ELSE IF step = 2 /\ p < 50 THEN 50
  ELSE IF step = 3 /\ p < 75 THEN 75
  ELSE IF step >= 4 /\ p < 95 THEN 95
  ELSE p

\* One simulation tick: the value it computes from session.progress.
simulatedProgress(step, p) ==
  IF step = 1 /\ p < 25 THEN 25
  ELSE IF step = 2 /\ p < 50 THEN 50
  ELSE IF step = 3 /\ p < 75 THEN 75
  ELSE IF step >= 4 /\ p < 90 THEN 90
  ELSE p

\* ------------------------------------------------------------------ state
VARIABLES
  impl,                \* which implementation of the route serves the session
  isMongoDBAvailable,  \* db !== null (always TRUE for impl = "atlas")
  connectFails,        \* the store cannot be reached: connectToDatabase throws
  pc,                  \* position of the POST handler: idle, created, started
  db,                  \* the DownloadSession document in MongoDB, or NoRec
  session,             \* the `session` object the POST closure holds
  inMap,               \* fallbackSessions.has(sessionId)
  files,               \* files of the session present in the output directory
  proc,                \* notspawned, running, failed, exited, closed
  code,                \* exit code given to 'close': "0", "1", "-2", "null"
  downloadTimeout,     \* the 30 min ceiling timer is armed (part_001)
  simDelay,            \* setTimeout(startProgressSimulation, 2000) is pending
  progressTimer,       \* the setInterval of the simulation is running
  simulationStep,
  silent,              \* Date.now() - lastRealProgress > 5000
  pending,             \* handlers suspended on `await DownloadSession.updateOne`
  closeH,              \* continuation of the 'close' handler
  errH,                \* continuation of the 'error' handler
  streams,             \* retrieve requests that passed the readiness check
  nChunks,             \* chunks emitted so far by the running process
  lastPolled,          \* progress returned by the latest successful poll
  dayPassed,           \* 24 hours have passed since the record was created
  quality,             \* the quality selector of the request being resolved
  formats,             \* the formats of the video, as the tool lists them
  selection,           \* the formats the tool downloads for the -f expression
  availableQualities,  \* the list returned by the metadata request
  answered,            \* "no", or which of the requests has been answered
  url,                 \* the url of the metadata request, as pieces of text
  tool,                \* what the tool did when the metadata request ran it
  infoResp,            \* the response of the metadata request
  tempBaseName,        \* per download, "download-" and its UUID (<<>>: not started)
  downloadsDir,        \* the names of the files in the output directory
  actualTempFile,      \* per download, the file its 'close' handler settled on
  videoInfo,           \* how the size probe of the create request ended
  cached,              \* global.mongoose: conn and promise (0: null, n: of attempt n)
  attempts,            \* per call of mongoose.connect: pending, resolved, rejected
  callers,             \* per request handler, where it is in connectToDatabase
  awaiting,            \* the callers suspended on a pending promise, in order
  jobs,                \* the continuations queued to run (the microtask queue)
  client,              \* the page: its request in flight, its timer, its downloadState
  resp                 \* the latest HTTP response

fetchVars == <<url, tool, infoResp>>
infoVars == <<quality, formats, selection, availableQualities, answered, fetchVars>>

nameVars == <<tempBaseName, downloadsDir, actualTempFile>>
\* what the session manager reads and never writes, beside its configuration
connVars == <<cached, attempts, callers, awaiting, jobs>>
clientVars == <<client>>
auxVars == <<videoInfo, connVars, clientVars>>

vars == <<auxVars, infoVars, nameVars, impl, isMongoDBAvailable, connectFails, pc, db, session, inMap, files, proc, code,
          downloadTimeout, simDelay, progressTimer, simulationStep, silent,
          pending, closeH, errH, streams, nChunks, lastPolled, dayPassed, resp>>

procVars == <<proc, code>>
timerVars == <<downloadTimeout, simDelay, progressTimer>>
simVars == <<simulationStep, silent>>
getVars == <<streams, lastPolled, resp>>
storeVars == <<db, session, inMap>>
cfgVars == <<auxVars, impl, isMongoDBAvailable, connectFails, infoVars, nameVars>>
sessionVars == <<pc, storeVars, files, procVars, timerVars, simVars, pending, closeH, errH,
                 getVars, nChunks, dayPassed>>
serverVars == <<impl, isMongoDBAvailable, connectFails, infoVars, nameVars, sessionVars>>

Response(req, c, body) == [req |-> req, code |-> c, body |-> body]
\* the metadata request has not run the tool
NotRun == [kind |-> "notrun", code |-> "", stdout |-> FALSE, stderr |-> {}, killed |-> FALSE,
           signal |-> ""]
NoClose == [pc |-> "idle", actual |-> "exact", fileExists |-> FALSE]
CloseDone == [pc |-> "done", actual |-> "exact", fileExists |-> FALSE]

\* What findOne / fallbackSessions.get returns for the session id.
Lookup == IF isMongoDBAvailable THEN db ELSE IF inMap THEN session ELSE NoRec

\* updateOne with {upsert: true}: the fields are written also when the
\* document is gone.
UpdateOne_Upsert(r, fields) ==
  [k \in DOMAIN r |-> IF k \in DOMAIN fields THEN fields[k] ELSE r[k]]

\* DownloadSession.updateOne({sessionId}, fields): no upsert, so it changes
\* nothing when the document is gone.
UpdateOne(r, fields) ==
  IF r.status = "absent" THEN r
  ELSE [k \in DOMAIN r |-> IF k \in DOMAIN fields THEN fields[k] ELSE r[k]]
\* assignment to fields of the FallbackSession object
Assign(r, fields) == [k \in DOMAIN r |-> IF k \in DOMAIN fields THEN fields[k] ELSE r[k]]

Last(s) == s[Len(s)]
\* The suspended handlers and the streams are kept as bags: they have no order.
Add(bag, x) == bag (+) SetToBag({x})
Remove(bag, x) == bag (-) SetToBag({x})

\* the downloads that share the output directory
Sessions == 1..MaxSessions
\* No download has chosen a file name and the output directory is empty.
NoNames ==
  /\ tempBaseName = [s \in Sessions |-> <<>>]
  /\ downloadsDir = {}
  /\ actualTempFile = [s \in Sessions |-> <<>>]

\* the handlers that open the store
Callers == 1..MaxCallers
Outside == [pc |-> "outside", on |-> 0, got |-> 0]
\* The module cache as mongodb.ts leaves it when it is loaded.
NoConnect ==
  /\ cached = [conn |-> 0, promise |-> 0]
  /\ attempts = <<>>
  /\ callers = [c \in Callers |-> Outside]
  /\ awaiting = <<>>
  /\ jobs = <<>>

\* The page before the download button is pressed.
NoClient ==
  client = [pc |-> "idle", timer |-> FALSE, status |-> "idle", progress |-> 0,
            retrievals |-> 0, answers |-> <<>>]

\* The state of the session manager before any request.
Idle ==
  /\ NoConnect
  /\ NoClient
  /\ pc = "idle"
  /\ db = NoRec
  /\ session = NoRec
  /\ inMap = FALSE
  /\ files = {}
  /\ proc = "notspawned"
  /\ code = "none"
  /\ downloadTimeout = FALSE
  /\ simDelay = FALSE
  /\ progressTimer = FALSE
  /\ simulationStep = 0
  /\ silent = TRUE
  /\ pending = EmptyBag
  /\ closeH = NoClose
  /\ errH = "idle"
  /\ streams = EmptyBag
  /\ nChunks = 0
  /\ lastPolled = NoMatch
  /\ dayPassed = FALSE
  /\ resp = Response("none", 0, "")
  /\ NoNames

\* The probe of a request that passes it: the tool printed the metadata of a
\* video of unknown size and duration.
Probed(filesize, duration) ==
  [outcome |-> "resolved", filesize |-> filesize, duration |-> duration]
NoProbe == videoInfo = Probed(0, 0)

\* No metadata request has been made.
NoFetch ==
  /\ NoProbe
  /\ url = <<>>
  /\ tool = NotRun
  /\ infoResp = Response("none", 0, "")

\* No format resolution and no metadata request is looked at.
NoInfo ==
  /\ NoFetch
  /\ quality = "none"
  /\ formats = <<>>
  /\ selection = {}
  /\ availableQualities = <<>>
  /\ answered = "no"

Init ==
  /\ impl \in {"route", "atlas"}
  /\ isMongoDBAvailable \in BOOLEAN
  /\ (impl = "atlas" => isMongoDBAvailable)
  /\ connectFails \in BOOLEAN
  /\ (connectFails => isMongoDBAvailable)
  /\ Idle
  /\ NoInfo

\* ------------------------------------------------------------------- POST
\* spawn(ytdlpCmd, args) and the timers set right after it; the spawn either
\* starts the process or fails asynchronously ('error' is emitted later).
SpawnProcess ==
  /\ proc' \in {"running", "failed"}
  /\ code' = code
  /\ downloadTimeout' = (impl = "atlas")
  /\ simDelay' = TRUE
  /\ progressTimer' = progressTimer
  /\ pc' = "started"
  /\ resp' = Response("post", 200, "id")

\* `await connectToDatabase()` is the first statement of both handlers: it
\* resolves to the connection, or rejects when mongoose.connect fails (the
\* rejection is rethrown, nothing is returned in its place). isMongoDBAvailable
\* = FALSE stands for a connector that resolved to null.
connectToDatabase == IF connectFails THEN "throws" ELSE "conn"

\* ------------------------------------------------- connectToDatabase
\* A catch block that leaves the rejected promise in the cache.
CatchClears_Keeps(promise) == promise
\* catch (e) { cached.promise = null; ... }
CatchClears(promise) == 0

\* A handler calls connectToDatabase and runs it up to its return or its
\* await. A call is made by a new request, so it starts when no continuation
\* is queued: the continuations of the awaiters of one promise are queued
\* together when it settles and run one after the other.
ConnectCall(c) ==
  /\ jobs = <<>>
  /\ callers[c].pc # "waiting"
  /\ IF cached.conn # 0
       THEN /\ callers' = [callers EXCEPT ![c] = [pc |-> "returned", on |-> 0, got |-> cached.conn]]
            /\ UNCHANGED <<cached, attempts, awaiting, jobs>>
       ELSE IF cached.promise = 0
       THEN /\ Len(attempts) < MaxAttempts
            /\ attempts' = Append(attempts, "pending")
            /\ cached' = [cached EXCEPT !.promise = Len(attempts) + 1]
            /\ callers' = [callers EXCEPT ![c] = [pc |-> "waiting", on |-> Len(attempts) + 1, got |-> 0]]
            /\ awaiting' = Append(awaiting, c)
            /\ jobs' = jobs
       ELSE /\ callers' = [callers EXCEPT ![c] = [pc |-> "waiting", on |-> cached.promise, got |-> 0]]
            /\ IF attempts[cached.promise] = "pending"
                 THEN awaiting' = Append(awaiting, c) /\ jobs' = jobs
                 ELSE awaiting' = awaiting /\ jobs' = Append(jobs, c)
            /\ UNCHANGED <<cached, attempts>>
  /\ UNCHANGED <<videoInfo, clientVars, serverVars>>

\* mongoose.connect of attempt n settles: its awaiters are queued in the
\* order in which they awaited.
ConnectSettle(n, outcome) ==
  /\ jobs = <<>>
  /\ n \in 1..Len(attempts)
  /\ attempts[n] = "pending"
  /\ attempts' = [attempts EXCEPT ![n] = outcome]
  /\ LET On(c) == callers[c].on = n
         NotOn(c) == callers[c].on # n
     IN /\ jobs' = SelectSeq(awaiting, On)
        /\ awaiting' = SelectSeq(awaiting, NotOn)
  /\ UNCHANGED <<cached, callers, videoInfo, clientVars, serverVars>>

\* The first queued caller resumes after its await: it stores and returns the
\* connection, or clears the promise and rethrows.
ConnectResume ==
  /\ jobs # <<>>
  /\ LET c == Head(jobs)
         n == callers[c].on
     IN IF attempts[n] = "resolved"
          THEN /\ cached' = [cached EXCEPT !.conn = n]
               /\ callers' = [callers EXCEPT ![c] = [pc |-> "returned", on |-> n, got |-> n]]
          ELSE /\ cached' = [cached EXCEPT !.promise = CatchClears(cached.promise)]
               /\ callers' = [callers EXCEPT ![c] = [pc |-> "threw", on |-> n, got |-> 0]]
  /\ jobs' = Tail(jobs)
  /\ UNCHANGED <<attempts, awaiting, videoInfo, clientVars, serverVars>>

\* ------------------------------------------------- the page (handleDownload)
\* What a progress request can come back with: the record of a running
\* download, of a finished one, of a failed one, or no answer that is ok (a
\* status other than 2xx, or fetch rejecting).
Answer(status, progress) == [status |-> status, progress |-> progress]
Answers ==
  {Answer("downloading", p) : p \in {0, 50, 90}}
    \cup {Answer("completed", 100), Answer("error", 0), Answer("failed", 0)}
\* A catch block that polls again.
PollAgain_AfterError(status) == status # "completed"
\* Whether the branch pollProgress takes for the answer ends with
\* setTimeout(pollProgress, 1000): only the last else does.
PollAgain(status) == status \notin {"completed", "error", "failed"}

\* The button is pressed: downloadState becomes downloading and the POST is sent.
ClientStart ==
  /\ client.pc = "idle"
  /\ client' = [client EXCEPT !.pc = "post", !.status = "downloading", !.progress = 0]
  /\ UNCHANGED <<videoInfo, connVars, serverVars>>

\* The POST is answered: with an id, and pollProgress() sends the first
\* progress request; or not ok, and the outer catch sets the error state.
ClientPosted(ok) ==
  /\ client.pc = "post"
  /\ client' = IF ok THEN [client EXCEPT !.pc = "progress"]
               ELSE [client EXCEPT !.pc = "none", !.status = "error", !.progress = 0]
  /\ UNCHANGED <<videoInfo, connVars, serverVars>>

\* A progress request is answered and pollProgress runs to its end, or to the
\* await of the file request.
ClientPolled(a) ==
  /\ client.pc = "progress"
  /\ client' =
       IF a.status = "completed"
         THEN [client EXCEPT !.pc = "file", !.retrievals = @ + 1,
                             !.answers = Append(@, a), !.timer = PollAgain(a.status)]
       ELSE IF a.status \in {"error", "failed"}
         THEN [client EXCEPT !.pc = "none", !.status = "error", !.progress = 0,
                             !.answers = Append(@, a), !.timer = PollAgain(a.status)]
       ELSE [client EXCEPT !.pc = "none", !.status = "downloading", !.progress = a.progress,
                           !.answers = Append(@, a), !.timer = PollAgain(a.status)]
  /\ UNCHANGED <<videoInfo, connVars, serverVars>>

\* The 1 s timer fires: pollProgress sends the next progress request.
ClientTimer ==
  /\ client.timer
  /\ client.pc = "none"
  /\ Len(client.answers) < MaxPolls
  /\ client' = [client EXCEPT !.timer = FALSE, !.pc = "progress"]
  /\ UNCHANGED <<videoInfo, connVars, serverVars>>

\* The file request is answered: the blob is saved and the state becomes
\* completed, or the catch sets the error state.
ClientFile(ok) ==
  /\ client.pc = "file"
  /\ client' = IF ok THEN [client EXCEPT !.pc = "none", !.status = "completed", !.progress = 100]
               ELSE [client EXCEPT !.pc = "none", !.status = "error", !.progress = 0]
  /\ UNCHANGED <<videoInfo, connVars, serverVars>>

\* the catch block of POST and the catch block of GET
PostFailed == Response("post", 500, "Failed to initiate download")
GetFailed(req) == Response(req, 500, "Internal server error")

\* POST with url or quality missing.
PostInvalid ==
  /\ pc = "idle"
  /\ resp' = IF connectToDatabase = "throws" THEN PostFailed
             ELSE Response("post", 400, "URL and quality are required")
  /\ UNCHANGED <<cfgVars, dayPassed, pc, storeVars, files, procVars, timerVars, simVars,
                 pending, closeH, errH, streams, nChunks, lastPolled>>

NewSession == Rec("downloading", 0, "none", "exact")

\* The probe of part_001 (`--dump-json --no-playlist url`). Its promise is
\* rejected when the process closes with a code other than 0 or without
\* output, when the output is not JSON, when the process cannot be spawned,
\* and by the 30 s timer when none of these came first.
ProbeRejected == {"failed", "unparsable", "spawnerror", "timeout"}
\* Sizes are counted in units of 100 bytes, durations in seconds:
\* duration * bitrate / 8 bytes is duration * BytesPerSecond[q] units.
BytesPerSecond(q) ==
  CASE q = "2160p" -> 2500
    [] q = "1440p" -> 1500
    [] q = "1080p" -> 1000
    [] q = "720p" -> 625
    [] q = "480p" -> 375
    [] q = "audio" -> 160
    [] OTHER -> 0
\* estimatedSize: the reported filesize when there is one (not for audio),
\* else the product; 0 for a quality the switch has no case for.
estimatedSize(q, info) ==
  IF BytesPerSecond(q) = 0 THEN 0
  ELSE IF q # "audio" /\ info.filesize # 0 THEN info.filesize
  ELSE info.duration * BytesPerSecond(q)
\* 2 * 1024 * 1024 * 1024 bytes is 21474836.48 units; a whole number of units
\* is above it exactly when it is above 21474836.
MAX_FILE_SIZE == 21474836
\* the size check that lets every request through
TooLarge_Never(q, info) == FALSE
TooLarge(q, info) == estimatedSize(q, info) > MAX_FILE_SIZE
FileTooLarge == Response("post", 400, "File size too large")

\* POST with url and quality: the record is created; route.ts spawns the
\* process in the same step, part_001 after a 500 ms delay.
PostCreate ==
  /\ pc = "idle"
  /\ IF connectToDatabase = "throws" \/ (impl = "atlas" /\ videoInfo.outcome \in ProbeRejected)
       THEN /\ resp' = PostFailed
            /\ UNCHANGED <<pc, storeVars, procVars, timerVars>>
       ELSE IF impl = "atlas" /\ TooLarge(quality, videoInfo)
       THEN /\ resp' = FileTooLarge
            /\ UNCHANGED <<pc, storeVars, procVars, timerVars>>
       ELSE /\ session' = NewSession
            /\ db' = IF isMongoDBAvailable THEN NewSession ELSE db
            /\ inMap' = ~isMongoDBAvailable
            /\ IF impl = "route"
                 THEN SpawnProcess
                 ELSE /\ pc' = "created"
                      /\ UNCHANGED <<procVars, timerVars, resp>>
  /\ UNCHANGED <<cfgVars, dayPassed, files, simVars, pending, closeH, errH, streams,
                 nChunks, lastPolled>>

PostSpawn ==
  /\ pc = "created"
  /\ SpawnProcess
  /\ UNCHANGED <<cfgVars, dayPassed, storeVars, files, simVars, pending, closeH, errH,
                 streams, nChunks, lastPolled>>

\* ------------------------------------------------- the download process
\* The tool creates a file of the session in the output directory.
ProcWrite(f) ==
  /\ proc = "running"
  /\ f \notin files
  /\ files' = files \cup {f}
  /\ UNCHANGED <<cfgVars, dayPassed, pc, storeVars, procVars, timerVars, simVars, pending,
                 closeH, errH, getVars, nChunks>>

\* The process exits on its own with code c.
ProcExit(c) ==
  /\ proc = "running"
  /\ proc' = "exited"
  /\ code' = c
  /\ nChunks' = 0
  /\ UNCHANGED <<cfgVars, dayPassed, pc, storeVars, files, timerVars, simVars, pending,
                 closeH, errH, getVars>>

\* downloadTimeout fires: ytdlp.kill() sends SIGTERM; a process ended by a
\* signal reports code null.
DownloadTimeout ==
  /\ downloadTimeout
  /\ downloadTimeout' = FALSE
  /\ IF proc = "running"
       THEN proc' = "exited" /\ code' = "null" /\ nChunks' = 0
       ELSE UNCHANGED <<procVars, nChunks>>
  /\ UNCHANGED <<cfgVars, dayPassed, pc, storeVars, files, simDelay, progressTimer, simVars,
                 pending, closeH, errH, getVars>>

\* ----------------------------------------------------- progress handlers
ResetSimulation == silent' = FALSE /\ simulationStep' = 0

\* ytdlp.stdout/stderr 'data' with chunk o (parseProgress in part_001).
Chunk(o) ==
  /\ proc = "running"
  /\ nChunks < MaxChunks
  /\ nChunks' = nChunks + 1
  /\ LET cur == session.progress
         ws == ParseWrites(o, cur, impl)
         changed == ProgressChanged(o, cur, impl)
     IN IF isMongoDBAvailable
          THEN /\ IF ws = <<>>
                    THEN pending' = pending
                    ELSE /\ BagCardinality(pending) < MaxPending
                         /\ pending' = Add(pending, [writes |-> ws, reset |-> changed])
               /\ UNCHANGED <<session, simVars>>
          ELSE /\ session' = IF ws = <<>> THEN session
                             ELSE Assign(session, [progress |-> Last(ws)])
               /\ IF changed THEN ResetSimulation ELSE UNCHANGED simVars
               /\ pending' = pending
  /\ UNCHANGED <<cfgVars, dayPassed, pc, db, inMap, files, procVars, timerVars, closeH, errH,
                 getVars>>

\* An awaited updateOne({progress}) of a suspended handler completes and the
\* handler runs on to its next await.
WriteDone(h) ==
  /\ BagIn(h, pending)
  /\ db' = UpdateOne(db, [progress |-> Head(h.writes)])
  /\ IF h.reset THEN ResetSimulation ELSE UNCHANGED simVars
  /\ pending' = IF Len(h.writes) = 1 THEN Remove(pending, h)
                ELSE Add(Remove(pending, h), [writes |-> Tail(h.writes), reset |-> FALSE])
  /\ UNCHANGED <<cfgVars, dayPassed, pc, session, inMap, files, procVars, timerVars, closeH,
                 errH, getVars, nChunks>>

\* 5 s go by without a real progress update.
Silence ==
  /\ pc = "started"
  /\ ~silent
  /\ silent' = TRUE
  /\ UNCHANGED <<cfgVars, dayPassed, pc, storeVars, files, procVars, timerVars, simulationStep,
                 pending, closeH, errH, getVars, nChunks>>

\* The 2 s timeout fires and startProgressSimulation sets the interval.
StartSimulation ==
  /\ simDelay
  /\ simDelay' = FALSE
  /\ progressTimer' = TRUE
  /\ UNCHANGED <<cfgVars, dayPassed, pc, storeVars, files, procVars, downloadTimeout, simVars,
                 pending, closeH, errH, getVars, nChunks>>

\* One run of the interval callback that finds the silence condition true.
\* simulationStep saturates at StepCap: every step >= 4 takes the same branch.
Tick ==
  /\ progressTimer
  /\ silent
  /\ LET step == Min(simulationStep + 1, StepCap)
         sp == simulatedProgress(step, session.progress)
     IN /\ simulationStep' = step
        /\ IF sp > session.progress
             THEN IF isMongoDBAvailable
                    THEN /\ BagCardinality(pending) < MaxPending
                         /\ pending' = Add(pending, [writes |-> <<sp>>, reset |-> FALSE])
                         /\ session' = session
                    ELSE /\ session' = Assign(session, [progress |-> sp])
                         /\ pending' = pending
             ELSE UNCHANGED <<session, pending>>
  /\ UNCHANGED <<cfgVars, dayPassed, pc, db, inMap, files, procVars, timerVars, silent, closeH,
                 errH, getVars, nChunks>>


\* ------------------------------------------------- 'close' and 'error'
CloseErrorMsg(c, fileExists) ==
  IF impl = "atlas"
    THEN "Download failed with code " \o c \o (IF fileExists THEN "" ELSE " (no output file)")
    ELSE "Download failed with code " \o c
SpawnErrorMsg ==
  IF impl = "atlas" THEN "Process error: spawn yt-dlp ENOENT" ELSE "spawn yt-dlp ENOENT"

\* CloseSucceeds with every non-positive code taken for success (code <= 0).
CloseSucceeds_NonPositive(c, fileExists) ==
  IF impl = "atlas" THEN c \in {"0", "null", "-2"} /\ fileExists ELSE c \in {"0", "-2"}

\* The condition under which the 'close' handler records completed.
CloseSucceeds(c, fileExists) ==
  IF impl = "atlas" THEN (c = "0" \/ c = "null") /\ fileExists ELSE c = "0"

\* CloseFields with an error branch that stores the status only.
CloseFields_StatusOnly(c, actual, fileExists) ==
  IF CloseSucceeds(c, fileExists)
    THEN IF impl = "atlas"
           THEN [status |-> "completed", progress |-> 100, tempFile |-> actual]
           ELSE [status |-> "completed", progress |-> 100]
    ELSE [status |-> "error"]

\* The fields the 'close' handler writes.
CloseFields(c, actual, fileExists) ==
  IF CloseSucceeds(c, fileExists)
    THEN IF impl = "atlas"
           THEN [status |-> "completed", progress |-> 100, tempFile |-> actual]
           ELSE [status |-> "completed", progress |-> 100]
    ELSE [status |-> "error", error |-> CloseErrorMsg(c, fileExists)]

\* The files left after the cleanup of the 'close' handler: on the error
\* branch it unlinks the one path it looked at, when that exists.
CloseCleanup(c, actual, fileExists, fs) ==
  IF CloseSucceeds(c, fileExists) THEN fs ELSE fs \ {actual}

\* The candidates for actualTempFile: tempFile when it exists, else the first
\* entry of readdirSync that starts with tempBaseName (directory order is not
\* specified), else tempFile.
ActualCandidates(fs) ==
  IF impl = "route" \/ "exact" \in fs \/ fs = {} THEN {"exact"} ELSE fs

\* ytdlp 'close' is emitted, after the process has ended and its output
\* streams are closed. The handler runs to its first await.
CloseEvent ==
  /\ proc = "exited"
  /\ proc' = "closed"
  /\ code' = code
  /\ progressTimer' = FALSE
  /\ simDelay' = simDelay
  /\ downloadTimeout' = IF impl = "atlas" THEN FALSE ELSE downloadTimeout
  /\ \E actual \in ActualCandidates(files) :
       LET fileExists == actual \in files
       IN IF isMongoDBAvailable
            THEN /\ closeH' = [pc |-> IF impl = "atlas" /\ fileExists THEN "stat" ELSE "update",
                               actual |-> actual, fileExists |-> fileExists]
                 /\ UNCHANGED <<session, files>>
            ELSE /\ session' = Assign(session, CloseFields(code, actual, fileExists))
                 /\ files' = CloseCleanup(code, actual, fileExists, files)
                 /\ closeH' = CloseDone
  /\ UNCHANGED <<cfgVars, dayPassed, pc, db, inMap, simVars, pending, errH, getVars, nChunks>>

\* part_001: fs.stat(actualTempFile) resolves, or rejects and the handler
\* ends in its catch block.
CloseStat ==
  /\ closeH.pc = "stat"
  /\ closeH' = IF closeH.actual \in files THEN [closeH EXCEPT !.pc = "update"] ELSE CloseDone
  /\ UNCHANGED <<cfgVars, dayPassed, pc, storeVars, files, procVars, timerVars, simVars, pending,
                 errH, getVars, nChunks>>

\* The awaited updateOne of the 'close' handler completes; the cleanup of
\* the error branch follows.
CloseUpdate ==
  /\ closeH.pc = "update"
  /\ db' = UpdateOne(db, CloseFields(code, closeH.actual, closeH.fileExists))
  /\ files' = CloseCleanup(code, closeH.actual, closeH.fileExists, files)
  /\ closeH' = CloseDone
  /\ UNCHANGED <<cfgVars, dayPassed, pc, session, inMap, procVars, timerVars, simVars, pending,
                 errH, getVars, nChunks>>

\* The files left after the cleanup of the 'error' handler: route.ts unlinks
\* tempFile, part_001 every file starting with tempBaseName.
ErrorCleanup(fs) == IF impl = "atlas" THEN {} ELSE fs \ {"exact"}

\* ytdlp 'error' is emitted for a failed spawn; Node emits 'close' with the
\* negative errno afterwards.
ErrorEvent ==
  /\ proc = "failed"
  /\ proc' = "exited"
  /\ code' = "-2"
  /\ progressTimer' = FALSE
  /\ simDelay' = simDelay
  /\ downloadTimeout' = IF impl = "atlas" THEN FALSE ELSE downloadTimeout
  /\ IF isMongoDBAvailable
       THEN /\ errH' = "update"
            /\ UNCHANGED <<session, files>>
       ELSE /\ session' = Assign(session, [status |-> "error", error |-> SpawnErrorMsg])
            /\ files' = ErrorCleanup(files)
            /\ errH' = "done"
  /\ UNCHANGED <<cfgVars, dayPassed, pc, db, inMap, simVars, pending, closeH, getVars, nChunks>>

ErrorUpdate ==
  /\ errH = "update"
  /\ db' = UpdateOne(db, [status |-> "error", error |-> SpawnErrorMsg])
  /\ files' = ErrorCleanup(files)
  /\ errH' = "done"
  /\ UNCHANGED <<cfgVars, dayPassed, pc, session, inMap, procVars, timerVars, simVars, pending,
                 closeH, getVars, nChunks>>

\* -------------------------------------------------------------------- GET
SessionNotFound(req) == Response(req, 404, "Session not found")

\* NotReady without the status test.
NotReady_PathOnly(r) == r.tempFile = "none"

\* session.status !== 'completed' || !session.tempFile
NotReady(r) == r.status # "completed" \/ r.tempFile = "none"

\* The JSON body of a poll: {status, progress, error}. The progress is
\* recorded in lastPolled.
ProgressBody(r) == r.status \o "|" \o r.error

\* GET ?action=progress
Poll ==
  /\ LET r == Lookup
     IN IF connectToDatabase = "throws"
          THEN resp' = GetFailed("poll") /\ lastPolled' = lastPolled
          ELSE IF r.status = "absent"
            THEN resp' = SessionNotFound("poll") /\ lastPolled' = lastPolled
            ELSE resp' = Response("poll", 200, ProgressBody(r)) /\ lastPolled' = r.progress
  /\ UNCHANGED <<cfgVars, dayPassed, pc, storeVars, files, procVars, timerVars, simVars, pending,
                 closeH, errH, streams, nChunks>>

\* GET ?action=file, up to the response (route.ts) or to the await of
\* fs.stat (part_001).
Retrieve ==
  /\ LET r == Lookup
     IN IF connectToDatabase = "throws"
          THEN resp' = GetFailed("file") /\ streams' = streams
          ELSE IF r.status = "absent"
          THEN resp' = SessionNotFound("file") /\ streams' = streams
          ELSE IF NotReady(r)
            THEN /\ resp' = Response("file", 400, "Download not ready")
                 /\ streams' = streams
            ELSE /\ BagCardinality(streams) < MaxStreams
                 /\ IF impl = "route"
                      THEN /\ streams' = Add(streams, [st |-> "created", file |-> r.tempFile])
                           /\ resp' = Response("file", 200, "stream")
                      ELSE /\ streams' = Add(streams, [st |-> "stat", file |-> r.tempFile])
                           /\ resp' = resp
  /\ UNCHANGED <<cfgVars, dayPassed, pc, storeVars, files, procVars, timerVars, simVars, pending,
                 closeH, errH, lastPolled, nChunks>>

\* One stream x of the bag moves to state st.
SetSt(x, st) == streams' = Add(Remove(streams, x), [x EXCEPT !.st = st])

\* part_001: fs.stat of the retrieve request resolves and the stream is
\* created and returned, or it rejects and the request answers 404.
RetrieveStat(x) ==
  /\ BagIn(x, streams)
  /\ x.st = "stat"
  /\ IF x.file \in files
       THEN /\ SetSt(x, "created")
            /\ resp' = Response("file", 200, "stream")
       ELSE /\ SetSt(x, "rejected")
            /\ resp' = Response("file", 404, "File not found or inaccessible")
  /\ UNCHANGED <<cfgVars, dayPassed, pc, storeVars, files, procVars, timerVars, simVars, pending,
                 closeH, errH, lastPolled, nChunks>>

\* createReadStream opens the file lazily; a missing file makes it emit
\* 'error' and never 'end'.
StreamOpen(x) ==
  /\ BagIn(x, streams)
  /\ x.st = "created"
  /\ SetSt(x, IF x.file \in files THEN "open" ELSE "ended")
  /\ UNCHANGED <<cfgVars, dayPassed, pc, storeVars, files, procVars, timerVars, simVars, pending,
                 closeH, errH, lastPolled, resp, nChunks>>

\* fileStream 'end': the file was read to its end. unlinkSync throws when the
\* file is gone, which skips the deletion of the record.
StreamEnd(x) ==
  /\ BagIn(x, streams)
  /\ x.st = "open"
  /\ IF x.file \in files
       THEN /\ files' = files \ {x.file}
            /\ IF isMongoDBAvailable
                 THEN SetSt(x, "deleting") /\ inMap' = inMap
                 ELSE SetSt(x, "ended") /\ inMap' = FALSE
       ELSE /\ SetSt(x, "ended")
            /\ UNCHANGED <<files, inMap>>
  /\ UNCHANGED <<cfgVars, dayPassed, pc, db, session, procVars, timerVars, simVars, pending,
                 closeH, errH, lastPolled, resp, nChunks>>

\* the awaited deleteOne of the 'end' handler completes
StreamDeleted(x) ==
  /\ BagIn(x, streams)
  /\ x.st = "deleting"
  /\ db' = NoRec
  /\ SetSt(x, "ended")
  /\ UNCHANGED <<cfgVars, dayPassed, pc, session, inMap, files, procVars, timerVars, simVars,
                 pending, closeH, errH, lastPolled, resp, nChunks>>

\* The client disconnects before the end: the stream is destroyed and emits
\* 'close' only.
StreamAbort(x) ==
  /\ BagIn(x, streams)
  /\ x.st \in {"created", "open"}
  /\ SetSt(x, "ended")
  /\ UNCHANGED <<cfgVars, dayPassed, pc, storeVars, files, procVars, timerVars, simVars, pending,
                 closeH, errH, lastPolled, resp, nChunks>>

\* fileStream 'error' while reading: part_001 logs it, route.ts has no handler.
StreamError(x) ==
  /\ BagIn(x, streams)
  /\ x.st = "open"
  /\ SetSt(x, "ended")
  /\ UNCHANGED <<cfgVars, dayPassed, pc, storeVars, files, procVars, timerVars, simVars, pending,
                 closeH, errH, lastPolled, resp, nChunks>>

\* ----------------------------------------------------------------- expiry
\* 24 hours have passed since createdAt: the TTL index removes the document
\* (the pass of the TTL monitor is taken as immediate). Nothing removes an
\* entry of fallbackSessions.
Expire ==
  /\ Lookup.status # "absent"
  /\ ~dayPassed
  /\ dayPassed' = TRUE
  /\ db' = IF isMongoDBAvailable THEN NoRec ELSE db
  /\ UNCHANGED <<cfgVars, pc, session, inMap, files, procVars, timerVars, simVars,
                 pending, closeH, errH, getVars, nChunks>>

\* ------------------------------------------------- formats and qualities
\* A format of the tool's metadata: height (0 when the field is absent),
\* vcodec and acodec ("none" for a missing track, "" when the field is absent).
Format(h, v, a) == [height |-> h, vcodec |-> v, acodec |-> a]
VideoOnly(h) == Format(h, "avc1", "none")
Combined(h) == Format(h, "avc1", "mp4a")
AudioOnly == Format(0, "none", "mp4a")
Range(q) == {q[i] : i \in 1..Len(q)}
SeqsUpTo(S, n) == UNION {[1..k -> S] : k \in 0..n}

\* The quality selectors of the switch, the five video tiers first.
Tiers == <<"2160p", "1440p", "1080p", "720p", "480p">>
Qualities == Range(Tiers) \cup {"audio", "best"}
NoLimit == 0

\* One selector of a format expression: bestvideo, bestaudio or best, with
\* the [height<=N] and [ext=...] filters it carries.
Sel(kind, maxHeight, ext) == [kind |-> kind, maxHeight |-> maxHeight, ext |-> ext]

\* formatString whose tier expressions end in an unfiltered best.
formatString_OpenFallback(q, im) ==
  LET tier(n) == IF im = "atlas" THEN <<<<Sel("best", n, "")>>>>
                 ELSE << <<Sel("bestvideo", n, ""), Sel("bestaudio", NoLimit, "")>>,
                         <<Sel("best", NoLimit, "")>> >>
  IN CASE q = "2160p" -> tier(2160)
       [] q = "1440p" -> tier(1440)
       [] q = "1080p" -> tier(1080)
       [] q = "720p" -> tier(720)
       [] q = "480p" -> tier(480)
       [] q = "audio" ->
            IF im = "atlas" THEN <<<<Sel("bestaudio", NoLimit, "")>>>>
            ELSE << <<Sel("bestaudio", NoLimit, "m4a")>>, <<Sel("bestaudio", NoLimit, "mp3")>>,
                    <<Sel("bestaudio", NoLimit, "")>>, <<Sel("best", NoLimit, "")>> >>
       [] OTHER ->
            IF im = "atlas" THEN <<<<Sel("best", NoLimit, "")>>>>
            ELSE << <<Sel("bestvideo", NoLimit, ""), Sel("bestaudio", NoLimit, "")>>,
                    <<Sel("best", NoLimit, "")>> >>

\* The -f expression of the switch on quality: the alternatives separated by
\* '/', each one the selectors joined by '+'.
formatString(q, im) ==
  LET tier(n) == IF im = "atlas" THEN <<<<Sel("best", n, "")>>>>
                 ELSE << <<Sel("bestvideo", n, ""), Sel("bestaudio", NoLimit, "")>>,
                         <<Sel("best", n, "")>> >>
  IN CASE q = "2160p" -> tier(2160)
       [] q = "1440p" -> tier(1440)
       [] q = "1080p" -> tier(1080)
       [] q = "720p" -> tier(720)
       [] q = "480p" -> tier(480)
       [] q = "audio" ->
            IF im = "atlas" THEN <<<<Sel("bestaudio", NoLimit, "")>>>>
            ELSE << <<Sel("bestaudio", NoLimit, "m4a")>>, <<Sel("bestaudio", NoLimit, "mp3")>>,
                    <<Sel("bestaudio", NoLimit, "")>>, <<Sel("best", NoLimit, "")>> >>
       [] OTHER ->
            IF im = "atlas" THEN <<<<Sel("best", NoLimit, "")>>>>
            ELSE << <<Sel("bestvideo", NoLimit, ""), Sel("bestaudio", NoLimit, "")>>,
                    <<Sel("best", NoLimit, "")>> >>

\* What the tool does with the expression. bestvideo takes a video-only
\* format, bestaudio an audio-only one, best one with both tracks;
\* [height<=N] drops the formats whose height is unknown or above N; the best
\* of the candidates is the highest one.
HasVideo(f) == f.vcodec # "none"
HasAudio(f) == f.acodec \notin {"none", ""}
Ext(f) == IF HasVideo(f) THEN "mp4" ELSE "m4a"
Candidates(sel, F) ==
  {f \in F :
     /\ CASE sel.kind = "bestvideo" -> HasVideo(f) /\ ~HasAudio(f)
          [] sel.kind = "bestaudio" -> HasAudio(f) /\ ~HasVideo(f)
          [] OTHER -> HasVideo(f) /\ HasAudio(f)
     /\ (sel.maxHeight # NoLimit => (f.height # 0 /\ f.height <= sel.maxHeight))
     /\ (sel.ext # "" => Ext(f) = sel.ext)}
Best(C) == CHOOSE f \in C : \A g \in C : g.height <= f.height
Matches(alt, F) == \A i \in 1..Len(alt) : Candidates(alt[i], F) # {}
\* The formats of the first alternative that every selector can satisfy, or
\* none ("Requested format is not available").
Select(expr, F) ==
  LET ok == {i \in 1..Len(expr) : Matches(expr[i], F)}
  IN IF ok = {} THEN {}
     ELSE LET alt == expr[FirstIdx(ok)]
          IN {Best(Candidates(alt[i], F)) : i \in 1..Len(alt)}

\* The download request resolves its quality selector and the tool selects.
SelectFormat ==
  /\ answered = "no"
  /\ quality # "none"
  /\ selection' = Select(formatString(quality, impl), Range(formats))
  /\ answered' = "format"
  /\ UNCHANGED <<auxVars, impl, isMongoDBAvailable, connectFails, nameVars, quality, formats, fetchVars,
                 availableQualities, pc, storeVars, files, procVars, timerVars, simVars,
                 pending, closeH, errH, getVars, nChunks, dayPassed>>

\* The tier a format adds to availableQualities, "" when it adds none; the
\* strict comparison at 720 sends a 720 line format to 480p.
tierOf_Strict720(h) ==
  IF h = 0 THEN ""
  ELSE IF h >= 2160 THEN "2160p"
  ELSE IF h >= 1440 THEN "1440p"
  ELSE IF h >= 1080 THEN "1080p"
  ELSE IF h > 720 THEN "720p"
  ELSE IF h >= 480 THEN "480p"
  ELSE ""

\* The tier a format adds to availableQualities, "" when it adds none.
tierOf(h) ==
  IF h = 0 THEN ""
  ELSE IF h >= 2160 THEN "2160p"
  ELSE IF h >= 1440 THEN "1440p"
  ELSE IF h >= 1080 THEN "1080p"
  ELSE IF h >= 720 THEN "720p"
  ELSE IF h >= 480 THEN "480p"
  ELSE ""

\* Set.prototype.add on a Set kept in insertion order
SetAdd(q, x) == IF x \in Range(q) THEN q ELSE Append(q, x)

\* formats.forEach(...) on the Set built so far
RECURSIVE AddTiers(_, _)
AddTiers(fs, acc) ==
  IF fs = <<>> THEN acc
  ELSE AddTiers(Tail(fs), IF tierOf(Head(fs).height) = "" THEN acc
                          ELSE SetAdd(acc, tierOf(Head(fs).height)))

\* formats.some(f => f.acodec && f.acodec !== 'none')
SomeAudio(fs) == \E i \in 1..Len(fs) : fs[i].acodec # "" /\ fs[i].acodec # "none"

\* the order map of the comparator
order == [x \in Range(Tiers) \cup {"audio"} |->
            CASE x = "2160p" -> 0 [] x = "1440p" -> 1 [] x = "1080p" -> 2
              [] x = "720p" -> 3 [] x = "480p" -> 4 [] OTHER -> 5]

\* Array.prototype.sort with the comparator order[a] - order[b] (stable)
RECURSIVE Insert(_, _)
Insert(q, x) ==
  IF q = <<>> THEN <<x>>
  ELSE IF order[x] - order[Head(q)] < 0 THEN <<x>> \o q
  ELSE <<Head(q)>> \o Insert(Tail(q), x)
RECURSIVE Sort(_)
Sort(q) == IF q = <<>> THEN <<>> ELSE Insert(Sort(SubSeq(q, 1, Len(q) - 1)), Last(q))

\* availableQualities of the metadata response for the formats fs
AvailableQualities(fs) ==
  LET tiers == AddTiers(fs, <<>>)
  IN Sort(IF SomeAudio(fs) THEN SetAdd(tiers, "audio") ELSE tiers)

\* The metadata request computes its answer from the tool's JSON.
FetchInfo ==
  /\ answered = "no"
  /\ quality = "none"
  /\ availableQualities' = AvailableQualities(formats)
  /\ answered' = "qualities"
  /\ UNCHANGED <<auxVars, impl, isMongoDBAvailable, connectFails, nameVars, quality, formats, selection,
                 fetchVars, pc, storeVars, files, procVars, timerVars, simVars, pending, closeH,
                 errH, getVars, nChunks, dayPassed>>

\* -------------------------------------------------- output file names
\* randomUUID(): 36 characters, here two; every call returns a value that no
\* earlier call returned.
UuidChars == {"a", "b"}
Uuids_AnyLength == {<<c>> : c \in UuidChars} \cup {<<c, d>> : c, d \in UuidChars}
Uuids == {<<c, d>> : c, d \in UuidChars}
\* what the tool appends to the base name: the extension asked for, or the
\* extension of a part file
Suffixes == {".mp4", ".mp4.part"}
FileName(base, suffix) == base \o <<suffix>>
\* the -o path, `${tempBaseName}.${fileExtension}`
tempFile(s) == FileName(tempBaseName[s], ".mp4")
\* file.startsWith(base)
StartsWith(name, base) == Len(name) >= Len(base) /\ SubSeq(name, 1, Len(base)) = base

\* A create-download request chooses the base name of its output file.
NewBaseName(s) ==
  /\ tempBaseName[s] = <<>>
  /\ \E id \in Uuids :
       /\ \A t \in Sessions : tempBaseName[t] # <<"download-">> \o id
       /\ tempBaseName' = [tempBaseName EXCEPT ![s] = <<"download-">> \o id]
  /\ UNCHANGED <<auxVars, impl, isMongoDBAvailable, connectFails, infoVars, sessionVars,
                 downloadsDir, actualTempFile>>

\* The tool of download s writes a file: its -o path or another name made of it.
ToolWrites(s, suffix) ==
  /\ tempBaseName[s] # <<>>
  /\ actualTempFile[s] = <<>>
  /\ FileName(tempBaseName[s], suffix) \notin downloadsDir
  /\ downloadsDir' = downloadsDir \cup {FileName(tempBaseName[s], suffix)}
  /\ UNCHANGED <<auxVars, impl, isMongoDBAvailable, connectFails, infoVars, sessionVars,
                 tempBaseName, actualTempFile>>

\* 'close' of download s settles on a file: the -o path, or in part_001 a file
\* of the directory whose name starts with the base name when the -o path is
\* not there (readdirSync gives the names in no guaranteed order).
CloseSelects(s) ==
  /\ tempBaseName[s] # <<>>
  /\ actualTempFile[s] = <<>>
  /\ LET found == {f \in downloadsDir : StartsWith(f, tempBaseName[s])}
     IN \E f \in found \cup {tempFile(s)} :
          /\ \/ f = tempFile(s)
                /\ (impl = "route" \/ tempFile(s) \in downloadsDir \/ found = {})
             \/ f # tempFile(s) /\ impl = "atlas" /\ tempFile(s) \notin downloadsDir
          /\ actualTempFile' = [actualTempFile EXCEPT ![s] = f]
  /\ UNCHANGED <<auxVars, impl, isMongoDBAvailable, connectFails, infoVars, sessionVars,
                 tempBaseName, downloadsDir>>

\* unlinkSync of the file download s settled on (cleanup after an error or
\* after the retrieval).
Unlinks(s) ==
  /\ actualTempFile[s] \in downloadsDir
  /\ downloadsDir' = downloadsDir \ {actualTempFile[s]}
  /\ UNCHANGED <<auxVars, impl, isMongoDBAvailable, connectFails, infoVars, sessionVars,
                 tempBaseName, actualTempFile>>

\* ------------------------------------------------ the metadata request
\* The text of a url is a sequence of pieces; a pattern matches piece by piece.
Schemes == {"http://", "https://"}
AnyScheme == Schemes \cup {"ftp://"}
Subdomains == {"www.", "m."}
SupportedDomains ==
  {"youtube.com", "youtu.be", "vimeo.com", "dailymotion.com", "twitter.com", "x.com",
   "tiktok.com", "instagram.com", "facebook.com", "reddit.com", "twitch.tv"}
Paths == {"/watch?v=a", "/results?q=not found"}
\* text that continues the host name after the piece matched as a domain
HostTails == {".example.org", "munity.net"}

\* the phrases of the catch block that a piece of text contains
PhrasesOf(piece) == IF piece = "/results?q=not found" THEN {"not found"} ELSE {}
UrlPhrases(u) == UNION {PhrasesOf(u[i]) : i \in 1..Len(u)}

\* urlPattern.test(url): an optional scheme, an optional "www.", then one of
\* the domains; the pattern is anchored at the start only.
urlPattern(u) ==
  LET i == IF Len(u) >= 1 /\ u[1] \in Schemes THEN 2 ELSE 1
      j == IF Len(u) >= i /\ u[i] = "www." THEN i + 1 ELSE i
  IN /\ Len(u) >= j
     /\ u[j] \in SupportedDomains

\* What one run of `yt-dlp --dump-json` through exec can end as: kind says
\* what happened, the other fields are what exec reports of it.
Run(kind, c, out, err, killed, signal) ==
  [kind |-> kind, code |-> c, stdout |-> out, stderr |-> err, killed |-> killed,
   signal |-> signal]
ToolRuns ==
  { Run("ok", "0", TRUE, {}, FALSE, ""),
    Run("ok", "0", TRUE, {"WARNING"}, FALSE, ""),
    Run("absent", "127", FALSE, {"not found"}, FALSE, ""),
    Run("absent", "ENOENT", FALSE, {}, FALSE, ""),
    Run("unsupported", "1", FALSE, {"ERROR", "Unsupported URL"}, FALSE, ""),
    Run("unavailable", "1", FALSE, {"ERROR", "Video unavailable"}, FALSE, ""),
    Run("unavailable", "1", FALSE, {"ERROR", "Private video"}, FALSE, ""),
    Run("timeout", "null", FALSE, {}, TRUE, "SIGTERM"),
    Run("other", "1", FALSE, {"ERROR"}, FALSE, ""),
    Run("other", "0", FALSE, {"WARNING"}, FALSE, "") }

\* execPromise rejects unless the command exited with code 0.
Rejects(r) == r.code # "0"
\* The error exec rejects with: its message is "Command failed: " followed by
\* the command line, which ends with the url, and by stderr.
ExecError(u, r) ==
  [message |-> {"Command failed"} \cup UrlPhrases(u) \cup r.stderr,
   code |-> r.code, killed |-> r.killed, signal |-> r.signal]
\* throw new Error(stderr)
StderrError(r) == [message |-> r.stderr, code |-> "", killed |-> FALSE, signal |-> ""]

InfoResponse(c, body) == Response("info", c, body)
\* the catch block of the metadata request
CatchResponse(e) ==
  IF "not found" \in e.message \/ e.code = "ENOENT"
    THEN InfoResponse(500, "yt-dlp is not installed on the server")
  ELSE IF "Unsupported URL" \in e.message
    THEN InfoResponse(400, "This video platform is not supported")
  ELSE IF "Video unavailable" \in e.message \/ "Private video" \in e.message
    THEN InfoResponse(404, "Video is unavailable or private")
  ELSE IF e.killed \/ e.signal = "SIGTERM"
    THEN InfoResponse(408, "Request timed out")
  ELSE InfoResponse(500, "Failed to fetch video information")

\* The metadata request: the checks of the url, one run of the tool and the
\* answer made of its result.
PostVideoInfo ==
  /\ answered = "no"
  /\ quality = "none"
  /\ answered' = "info"
  /\ \E r \in ToolRuns :
       IF url = <<>>
         THEN /\ infoResp' = InfoResponse(400, "URL is required")
              /\ tool' = NotRun
              /\ availableQualities' = availableQualities
       ELSE IF ~urlPattern(url)
         THEN /\ infoResp' = InfoResponse(400, "Invalid or unsupported video URL")
              /\ tool' = NotRun
              /\ availableQualities' = availableQualities
       ELSE /\ tool' = r
            /\ IF Rejects(r)
                 THEN /\ infoResp' = CatchResponse(ExecError(url, r))
                      /\ availableQualities' = availableQualities
               ELSE IF r.stderr # {} /\ ~r.stdout
                 THEN /\ infoResp' = CatchResponse(StderrError(r))
                      /\ availableQualities' = availableQualities
               ELSE /\ infoResp' = InfoResponse(200, "videoInfo")
                    /\ availableQualities' = AvailableQualities(formats)
  /\ UNCHANGED <<auxVars, impl, isMongoDBAvailable, connectFails, nameVars, quality, formats, selection, url,
                 pc, storeVars, files, procVars, timerVars, simVars, pending, closeH,
                 errH, getVars, nChunks, dayPassed>>

Next ==
  \/ PostInvalid
  \/ PostCreate
  \/ PostSpawn
  \/ \E f \in OutFiles : ProcWrite(f)
  \/ \E c \in {"0", "1"} : ProcExit(c)
  \/ DownloadTimeout
  \/ \E o \in Chunks : Chunk(o)
  \/ \E h \in BagToSet(pending) : WriteDone(h)
  \/ Silence
  \/ StartSimulation
  \/ Tick
  \/ CloseEvent
  \/ CloseStat
  \/ CloseUpdate
  \/ ErrorEvent
  \/ ErrorUpdate
  \/ Poll
  \/ Retrieve
  \/ \E x \in BagToSet(streams) : RetrieveStat(x)
  \/ \E x \in BagToSet(streams) : StreamOpen(x)
  \/ \E x \in BagToSet(streams) : StreamEnd(x)
  \/ \E x \in BagToSet(streams) : StreamDeleted(x)
  \/ \E x \in BagToSet(streams) : StreamAbort(x)
  \/ \E x \in BagToSet(streams) : StreamError(x)
  \/ Expire

Spec == Init /\ [][Next]_vars

TypeOK ==
  /\ db.progress \in 0..100
  /\ proc \in {"notspawned", "running", "failed", "exited", "closed"}
  /\ files \subseteq OutFiles
  /\ BagCardinality(pending) <= MaxPending
  /\ BagCardinality(streams) <= MaxStreams

\* The server without the read-only requests: Poll and PostInvalid change
\* nothing but the recorded response.
NextServer ==
  \/ PostCreate
  \/ PostSpawn
  \/ \E f \in OutFiles : ProcWrite(f)
  \/ \E c \in {"0", "1"} : ProcExit(c)
  \/ DownloadTimeout
  \/ \E o \in Chunks : Chunk(o)
  \/ \E h \in BagToSet(pending) : WriteDone(h)
  \/ Silence
  \/ StartSimulation
  \/ Tick
  \/ CloseEvent
  \/ CloseStat
  \/ CloseUpdate
  \/ ErrorEvent
  \/ ErrorUpdate
  \/ Retrieve
  \/ \E x \in BagToSet(streams) : RetrieveStat(x)
  \/ \E x \in BagToSet(streams) : StreamOpen(x)
  \/ \E x \in BagToSet(streams) : StreamEnd(x)
  \/ \E x \in BagToSet(streams) : StreamDeleted(x)
  \/ \E x \in BagToSet(streams) : StreamAbort(x)
  \/ \E x \in BagToSet(streams) : StreamError(x)
  \/ Expire

SpecServer == Init /\ [][NextServer]_vars

\* The server with one retrieval of the file, and the polls a client makes
\* for a session whose record is gone.
NextOrphan ==
  \/ PostCreate
  \/ PostSpawn
  \/ \E f \in OutFiles : ProcWrite(f)
  \/ \E c \in {"0", "1"} : ProcExit(c)
  \/ DownloadTimeout
  \/ \E o \in Chunks : Chunk(o)
  \/ \E h \in BagToSet(pending) : WriteDone(h)
  \/ Silence
  \/ StartSimulation
  \/ Tick
  \/ CloseEvent
  \/ CloseStat
  \/ CloseUpdate
  \/ ErrorEvent
  \/ ErrorUpdate
  \/ (streams = EmptyBag /\ Retrieve)
  \/ \E x \in BagToSet(streams) : RetrieveStat(x)
  \/ \E x \in BagToSet(streams) : StreamOpen(x)
  \/ \E x \in BagToSet(streams) : StreamEnd(x)
  \/ \E x \in BagToSet(streams) : StreamDeleted(x)
  \/ \E x \in BagToSet(streams) : StreamAbort(x)
  \/ \E x \in BagToSet(streams) : StreamError(x)
  \/ Expire
  \/ (pc # "idle" /\ Lookup = NoRec /\ Poll)
SpecOrphan == Init /\ [][NextOrphan]_vars

\* The server with its timers firing and its handlers running: every step of
\* a timer callback, an event handler or an awaited store operation is taken
\* once it can be. What the download process and the clients do is not
\* constrained, nor is the TTL pass of the store.
Fairness ==
  /\ WF_vars(PostSpawn)
  /\ WF_vars(DownloadTimeout)
  /\ WF_vars(\E h \in BagToSet(pending) : WriteDone(h))
  /\ WF_vars(StartSimulation)
  /\ WF_vars(Tick)
  /\ WF_vars(CloseEvent)
  /\ WF_vars(CloseStat)
  /\ WF_vars(CloseUpdate)
  /\ WF_vars(ErrorEvent)
  /\ WF_vars(ErrorUpdate)
SpecLive == Init /\ [][NextServer]_vars /\ Fairness

\* The resolution of the quality selector of one download request, for every
\* selector and every short list of formats a site can offer.
OfferedHeights == {0, 360, 480, 720, 1080, 1440, 2160}
OfferedFormats ==
  {VideoOnly(h) : h \in OfferedHeights} \cup {Combined(h) : h \in OfferedHeights}
    \cup {AudioOnly}
InitFormat ==
  /\ impl \in {"route", "atlas"}
  /\ isMongoDBAvailable = TRUE
  /\ connectFails = FALSE
  /\ Idle
  /\ quality \in Qualities
  /\ formats \in SeqsUpTo(OfferedFormats, MaxOffered)
  /\ selection = {}
  /\ availableQualities = <<>>
  /\ answered = "no"
  /\ NoFetch
NextFormat == SelectFormat
SpecFormat == InitFormat /\ [][NextFormat]_vars

\* One metadata request, for every short list of formats the tool can report.
ReportedHeights == {360, 480, 720, 1080, 1440, 2160}
ReportedFormats ==
  {Format(h, "avc1", a) : h \in ReportedHeights, a \in {"none", "mp4a"}}
    \cup {VideoOnly(4320), AudioOnly, Format(0, "none", "")}
InitInfo ==
  /\ impl = "route"
  /\ isMongoDBAvailable = TRUE
  /\ connectFails = FALSE
  /\ Idle
  /\ quality = "none"
  /\ formats \in SeqsUpTo(ReportedFormats, MaxFormats)
  /\ selection = {}
  /\ availableQualities = <<>>
  /\ answered = "no"
  /\ NoFetch
NextInfo == FetchInfo
SpecInfo == InitInfo /\ [][NextInfo]_vars

\* One metadata request, for every url and every end of the tool's run.
Urls ==
  {<<>>} \cup
  { s \o w \o <<d>> \o t \o <<p>> :
      s \in {<<>>, <<"https://">>, <<"ftp://">>},
      w \in {<<>>, <<"www.">>, <<"m.">>},
      d \in {"youtube.com", "x.com", "example.com"},
      t \in {<<>>} \cup {<<x>> : x \in HostTails},
      p \in Paths }
InitFetch ==
  /\ impl = "route"
  /\ isMongoDBAvailable = TRUE
  /\ connectFails = FALSE
  /\ Idle
  /\ quality = "none"
  /\ formats \in {<<Format(720, "avc1", "mp4a")>>, <<VideoOnly(1080), AudioOnly>>}
  /\ selection = {}
  /\ availableQualities = <<>>
  /\ answered = "no"
  /\ url \in Urls
  /\ NoProbe
  /\ tool = NotRun
  /\ infoResp = Response("none", 0, "")
NextFetch == PostVideoInfo
SpecFetch == InitFetch /\ [][NextFetch]_vars

\* The downloads that share the output directory and the files they settle on.
InitNames ==
  /\ impl \in {"route", "atlas"}
  /\ isMongoDBAvailable = TRUE
  /\ connectFails = FALSE
  /\ Idle
  /\ NoInfo
NextNames ==
  \/ \E s \in Sessions : NewBaseName(s)
  \/ \E s \in Sessions, x \in Suffixes : ToolWrites(s, x)
  \/ \E s \in Sessions : CloseSelects(s)
  \/ \E s \in Sessions : Unlinks(s)
SpecNames == InitNames /\ [][NextNames]_vars

\* The progress of one download under the output handlers and the simulation,
\* for percentages up to and above 100.
PercentChunks ==
  { <<DL, Pct(50), OF>>,
    <<DL, Pct(95), OF>>,
    <<DL, Pct(150), OF>>,
    <<DL, TXT>>,
    <<Pct(7)>> }
NextProgress ==
  \/ PostCreate
  \/ PostSpawn
  \/ \E o \in PercentChunks : Chunk(o)
  \/ \E h \in BagToSet(pending) : WriteDone(h)
  \/ Silence
  \/ StartSimulation
  \/ Tick
SpecProgress == Init /\ [][NextProgress]_vars

\* The output handlers of one download, for chunks with and without markers.
ParserChunks ==
  { <<DL, Pct(50), OF>>,
    <<DL, Pct(95), OF>>,
    <<DL, TXT>>,
    <<DL, DEST, TXT>>,
    <<DL, Pct(100), OF, INTOK>>,
    <<DL, Pct(100), OF>>,
    <<TXT, ALREADY>>,
    <<MERGE>>,
    <<DELETING, Pct(50)>> }
NextParser ==
  \/ PostCreate
  \/ PostSpawn
  \/ \E o \in ParserChunks : Chunk(o)
  \/ \E h \in BagToSet(pending) : WriteDone(h)
SpecParser == Init /\ [][NextParser]_vars

\* The handlers that open the store, with connections that succeed and fail.
NextConnect ==
  \/ \E c \in Callers : ConnectCall(c)
  \/ \E n \in 1..MaxAttempts, o \in {"resolved", "rejected"} : ConnectSettle(n, o)
  \/ ConnectResume
SpecConnect == InitNames /\ [][NextConnect]_vars

\* One download of the page, for every sequence of answers to its requests.
NextClient ==
  \/ ClientStart
  \/ \E ok \in BOOLEAN : ClientPosted(ok)
  \/ \E a \in Answers : ClientPolled(a)
  \/ ClientTimer
  \/ \E ok \in BOOLEAN : ClientFile(ok)
SpecClient == InitNames /\ [][NextClient]_vars

\* One create request of part_001, for every quality and every end of its
\* probe: sizes and durations on both sides of the limit of each quality.
ProbeResults ==
  {Probed(f, d) : f \in {0, 21474836, 21474837}, d \in {0, 3600, 8589, 8590, 134217, 134218}}
    \cup {[outcome |-> o, filesize |-> 0, duration |-> 0] : o \in ProbeRejected}
InitProbe ==
  /\ impl = "atlas"
  /\ isMongoDBAvailable = TRUE
  /\ connectFails = FALSE
  /\ Idle
  /\ quality \in Qualities
  /\ formats = <<>>
  /\ selection = {}
  /\ availableQualities = <<>>
  /\ answered = "no"
  /\ url = <<>>
  /\ tool = NotRun
  /\ infoResp = Response("none", 0, "")
  /\ videoInfo \in ProbeResults
NextProbe ==
  \/ PostCreate
  \/ PostSpawn
  \/ \E f \in OutFiles : ProcWrite(f)
  \/ \E c \in {"0", "1"} : ProcExit(c)
SpecProbe == InitProbe /\ [][NextProbe]_vars

\* ------------------------------------------------------------ properties
Terminal == {"completed", "error"}
\* the streams that have ended (read to the end with the 'end' handler run to
\* its end, destroyed by a disconnect, or failed) 
Ended == {x \in BagToSet(streams) : x.st = "ended"}
\* the streams that were returned in a response
Handed == {x \in BagToSet(streams) : x.st \notin {"stat", "rejected"}}

\* C1: the progress returned by successive polls of the session never
\* decreases.
C1_PolledProgressMonotone == [][lastPolled' >= lastPolled]_vars

\* C2: once the stored status is completed or error, no step changes it to
\* another status; the record can only disappear.
C2_TerminalStatusStable ==
  [][Lookup.status \in Terminal => Lookup'.status \in {Lookup.status, "absent"}]_vars
\* the 'error' handler stored error and the 'close' handler has run as well
C2_Witness ==
  /\ Lookup.status = "error"
  /\ errH = "done"
  /\ closeH.pc = "done"
  /\ proc = "closed"

\* C3: once the stored status is completed or error, no step changes any
\* field of the record; the record can only be deleted.
C3_TerminalRecordImmutable ==
  [][Lookup.status \in Terminal => Lookup' \in {Lookup, NoRec}]_vars

\* C4: a retrieve request for a session that is not completed, or has no
\* artifact path, answers 400 'Download not ready', opens no stream and
\* deletes neither the file nor the record.
C4_NotReadyRejected ==
  [][(/\ Retrieve
      /\ Lookup.status # "absent"
      /\ (Lookup.status # "completed" \/ Lookup.tempFile = "none"))
     => /\ resp' = Response("file", 400, "Download not ready")
        /\ UNCHANGED <<streams, files, db, session, inMap>>]_vars
\* a retrieve request was answered 'Download not ready' while downloading
C4_Witness ==
  /\ resp = Response("file", 400, "Download not ready")
  /\ Lookup.status = "downloading"
  /\ streams = EmptyBag

\* C5: the first retrieve request for a completed session is answered with
\* the stream, and once a retrieval has finished every later retrieve or
\* poll answers 404 'Session not found'.
C5_RetrievedOnce ==
  [][/\ (Retrieve /\ impl = "route" /\ streams = EmptyBag /\ Lookup.status = "completed")
          => resp' = Response("file", 200, "stream")
     /\ (BagCardinality(streams) = 1 /\ \E x \in BagToSet(streams) : RetrieveStat(x))
          => resp' = Response("file", 200, "stream")
     /\ ((Poll \/ Retrieve) /\ Ended # {})
          => resp'.body = "Session not found"]_vars

\* C6: when a stream handed out by a retrieve request has ended, in whatever
\* way, the artifact file and the session record are gone.
C6_CleanupHoweverStreamEnds ==
  \A x \in Ended : x.file \notin files /\ Lookup.status = "absent"

\* C7: at most one retrieve request is handed the artifact stream.
C7_AtMostOneHandOff ==
  /\ Cardinality(Handed) <= 1
  /\ \A x \in Handed : CopiesIn(x, streams) = 1

\* C8: after the 'close' handler of a process that exited with a nonzero code
\* has finished, the session is in error and no file with the session's base
\* name is left.
C8_NonzeroExitLeavesNoFile ==
  (proc = "closed" /\ closeH.pc = "done" /\ code = "1")
    => files = {} /\ Lookup.status \in {"error", "absent"}

\* C9: a process killed by the ceiling timer ends in error, never completed,
\* whatever files it left.
C9_TimeoutEndsInError ==
  (proc = "closed" /\ closeH.pc = "done" /\ code = "null")
    => Lookup.status \in {"error", "absent"}

\* C10: the status becomes completed only when the exit code is 0 or null and
\* the recorded artifact path names a file that exists at that moment.
C10_CompletedOnlyWithFile ==
  [][(Lookup.status # "completed" /\ Lookup'.status = "completed")
      => code \in {"0", "null"} /\ Lookup'.tempFile \in files']_vars

\* C11: whenever the stored status is completed, the stored progress is 100,
\* also after progress writes of handlers that were suspended when the
\* completion was written.
C11_CompletedHasFullProgress ==
  Lookup.status = "completed" => Lookup.progress = 100

\* C12: a simulation tick of a downloading session moves the step counter by
\* at most one and writes nothing or the checkpoint of its step, never more
\* than 90; in the in-memory record, which the tick reads and writes in one
\* step, no checkpoint lies between the old and the new progress.
C12_TickOneCheckpoint ==
  [][(Tick /\ Lookup.status = "downloading")
     => /\ simulationStep' \in {simulationStep, simulationStep + 1}
        /\ \/ UNCHANGED <<pending, session>>
           \/ LET v == Checkpoints[simulationStep']
              IN /\ v <= 90
                 /\ IF isMongoDBAvailable
                      THEN pending' = Add(pending, [writes |-> <<v>>, reset |-> FALSE])
                      ELSE /\ session' = Assign(session, [progress |-> v])
                           /\ \A i \in 1..Len(Checkpoints) :
                                ~(session.progress < Checkpoints[i] /\ Checkpoints[i] < v)]_vars
\* four silent ticks have taken a downloading session to 90
C12_Witness ==
  /\ Lookup.status = "downloading"
  /\ simulationStep = StepCap
  /\ Lookup.progress = 90
  /\ progressTimer

\* C13: once the 'close' handler or the 'error' handler of the process has
\* run, no simulation tick runs any more.
C13_NoTickAfterProcessEnd ==
  [][(proc = "closed" \/ errH # "idle") => ~Tick]_vars

\* C14: when the store cannot be reached, no create-download, poll or
\* retrieve request fails with 500.
C14_ServedWhenStoreDown ==
  [][(connectFails /\ (PostCreate \/ Poll \/ Retrieve)) => resp'.code # 500]_vars

C16_InvalidPostRejected ==
  [][PostInvalid
     => /\ resp' = Response("post", 400, "URL and quality are required")
        /\ UNCHANGED <<db, session, inMap, files, proc>>]_vars

\* C17: the create-download request that launched the process was answered
\* {id}, and once the 'close' handler of a process that exited with a nonzero
\* code, or the 'error' handler of a failed spawn, has finished, what a poll
\* looks up is the record with status error and an error detail, until the
\* record expires.
C17_FailureRecorded ==
  /\ (resp.req = "post" /\ proc # "notspawned") => resp = Response("post", 200, "id")
  /\ ((errH = "done" \/ (closeH.pc = "done" /\ code \in {"1", "-2"})) /\ ~dayPassed)
       => (Lookup.status = "error" /\ Lookup.error # "none")
\* the process exited with code 1, the 'close' handler has finished and the
\* record holds the error
C17_Witness ==
  /\ code = "1"
  /\ closeH.pc = "done"
  /\ Lookup.status = "error"
  /\ Lookup.error = "Download failed with code 1"
  /\ ~dayPassed

\* C18: a poll answers 404 when no record is found for the id, and otherwise
\* the status, progress and error detail of the record.
C18_PollAnswersRecord ==
  [][Poll
     => IF Lookup.status = "absent"
          THEN resp' = SessionNotFound("poll")
          ELSE /\ resp' = Response("poll", 200, ProgressBody(Lookup))
               /\ lastPolled' = Lookup.progress]_vars

\* the height a tier stands for
TierHeight(q) ==
  CASE q = "2160p" -> 2160 [] q = "1440p" -> 1440 [] q = "1080p" -> 1080
    [] q = "720p" -> 720 [] q = "480p" -> 480

\* C19: for each of the five tiers, every alternative of the resolved format
\* expression has a video selector and every video selector in it is limited
\* to the height of the tier; so the video the tool selects is known to be no
\* higher than the tier, and is the highest one its selector can take.
C19_TierBoundsHeight ==
  (answered = "format" /\ quality \in Range(Tiers))
    => LET expr == formatString(quality, impl)
           T == TierHeight(quality)
       IN /\ \A i \in 1..Len(expr) :
               /\ \E j \in 1..Len(expr[i]) : expr[i][j].kind \in {"bestvideo", "best"}
               /\ \A j \in 1..Len(expr[i]) :
                    expr[i][j].kind \in {"bestvideo", "best"}
                      => expr[i][j].maxHeight \in 1..T
          /\ \A f \in selection :
               f.vcodec # "none"
                 => /\ f.height \in 1..T
                    /\ \A g \in Range(formats) :
                         (g.vcodec # "none" /\ (g.acodec = "none") = (f.acodec = "none"))
                           => ~(f.height < g.height /\ g.height <= T)
\* tier 720p was resolved for a site that offers a higher format as well
C19_Witness ==
  /\ answered = "format"
  /\ quality = "720p"
  /\ \E f \in selection : f.height = 720
  /\ \E g \in Range(formats) : g.height = 1080

\* the bounds of the bucket of a tier: from its height up to the height of
\* the next tier above
BucketTop(q) ==
  CASE q = "2160p" -> 100000 [] q = "1440p" -> 2160 [] q = "1080p" -> 1440
    [] q = "720p" -> 1080 [] q = "480p" -> 720

\* C20: availableQualities has no duplicates, is in the order 2160p, 1440p,
\* 1080p, 720p, 480p, audio, holds a tier exactly when the height of some
\* format lies in the bucket of the tier, and holds audio exactly when some
\* format has an audio codec; heights 360, 480, 720, 1080 with audio give
\* 1080p, 720p, 480p, audio.
C20_AvailableQualities ==
  answered = "qualities"
    => LET aq == availableQualities
           all == Tiers \o <<"audio">>
           pos(x) == CHOOSE i \in 1..Len(all) : all[i] = x
           heights == {formats[i].height : i \in 1..Len(formats)}
       IN /\ Range(aq) \subseteq Range(all)
          /\ \A i, j \in 1..Len(aq) : i < j => pos(aq[i]) < pos(aq[j])
          /\ \A q \in Range(Tiers) :
               q \in Range(aq) <=> \E h \in heights : TierHeight(q) <= h /\ h < BucketTop(q)
          /\ "audio" \in Range(aq)
               <=> \E i \in 1..Len(formats) : formats[i].acodec \notin {"none", ""}
          /\ (heights = {360, 480, 720, 1080} /\ "audio" \in Range(aq))
               => aq = <<"1080p", "720p", "480p", "audio">>
\* the list was computed for heights 360, 480, 720 and 1080 with audio
C20_Witness ==
  /\ answered = "qualities"
  /\ {formats[i].height : i \in 1..Len(formats)} = {360, 480, 720, 1080}
  /\ availableQualities = <<"1080p", "720p", "480p", "audio">>

\* the host of a url: the pieces between the scheme and the path
HostOf(u) ==
  LET h == IF Len(u) >= 1 /\ u[1] \in AnyScheme THEN Tail(u) ELSE u
  IN SelectSeq(h, LAMBDA x : x \notin Paths)
\* the host is a supported domain or a subdomain of one
OnSupportedDomain(u) ==
  LET h == HostOf(u)
  IN /\ h # <<>>
     /\ Last(h) \in SupportedDomains
     /\ \A i \in 1..(Len(h) - 1) : h[i] \in Subdomains

\* C21: a metadata request whose url is not on a supported domain is answered
\* 400 and the tool is not run for it.
C21_UnsupportedDomainRejected ==
  (answered = "info" /\ ~OnSupportedDomain(url)) => (infoResp.code = 400 /\ tool = NotRun)

\* the status the taxonomy assigns to each kind of failure
AssignedStatus ==
  [k \in {"absent", "unsupported", "unavailable", "timeout", "other"} |->
     CASE k = "absent" -> 500 [] k = "unsupported" -> 400 [] k = "unavailable" -> 404
       [] k = "timeout" -> 408 [] OTHER -> 500]

\* C22: a metadata request whose run of the tool failed is answered with the
\* status assigned to the kind of the failure.
C22_FailureKindStatus ==
  (answered = "info" /\ tool.kind \in DOMAIN AssignedStatus)
    => infoResp.code = AssignedStatus[tool.kind]

\* C23: two downloads never share an output file: the -o paths differ, and
\* the file a download settles on at close carries its own base name and not
\* the base name of another download.
C23_NoSharedOutputFile ==
  \A s, t \in Sessions :
    (s # t /\ tempBaseName[s] # <<>> /\ tempBaseName[t] # <<>>)
      => /\ tempFile(s) # tempFile(t)
         /\ actualTempFile[s] # <<>>
              => /\ StartsWith(actualTempFile[s], tempBaseName[s])
                 /\ ~StartsWith(actualTempFile[s], tempBaseName[t])
                 /\ actualTempFile[s] # actualTempFile[t]
C23_Witness ==
  \E s, t \in Sessions :
    /\ s # t
    /\ impl = "atlas"
    /\ actualTempFile[s] = FileName(tempBaseName[s], ".mp4.part")
    /\ tempFile(t) \in downloadsDir
    /\ actualTempFile[t] = tempFile(t)

\* C24: the artifact path of a session record is set exactly when its status
\* is completed.
C24_PathIffCompleted ==
  Lookup.status # "absent" => (Lookup.tempFile # "none" <=> Lookup.status = "completed")

\* C25: a session record carries an error detail only when its status is
\* error.
C25_ErrorDetailOnlyInError ==
  Lookup.error # "none" => Lookup.status = "error"
C25_Witness ==
  /\ Lookup.status = "error"
  /\ Lookup.error = SpawnErrorMsg
  /\ errH = "done"
  /\ closeH.pc = "idle"

\* C26: the error detail that is recorded first stays: no later process event
\* replaces it, the spawn error message of a failed spawn included.
C26_FirstErrorDetailKept ==
  [][(Lookup.error # "none" /\ Lookup'.status # "absent") => Lookup'.error = Lookup.error]_vars

\* C27: the stored progress of a session is always within 0..100, whatever
\* percentage the tool prints and however updates and ticks follow each other.
C27_ProgressInRange ==
  /\ db.progress \in 0..100
  /\ session.progress \in 0..100
C27_Witness ==
  /\ Lookup.status = "downloading"
  /\ Lookup.progress = 100
  /\ nChunks >= 1

\* the markers that set the progress whatever number the chunk holds
Forces100(o, im) ==
  \/ Includes(o, DL) /\ Includes100(o)
  \/ Includes(o, ALREADY)
  \/ Includes(o, MERGE)
  \/ Includes(o, DELETING)
Destination(o) == Includes(o, DL) /\ Includes(o, DEST)
NoMarker(o, im) == ~Forces100(o, im) /\ ~Destination(o)
\* The handler of the chunk leaves v as the stored progress: it assigns v, or
\* its last updateOne carries v, or it writes nothing and v is stored already.
Stores(v) ==
  IF isMongoDBAvailable
    THEN \/ pending' = pending /\ db.progress = v
         \/ \E h \in BagToSet(pending') : pending' = Add(pending, h) /\ Last(h.writes) = v
    ELSE session'.progress = v

\* C28: a chunk with a matched percentage m and no marker leaves max(p, m) as
\* the stored progress, p being the progress stored before the chunk.
C28_StoresMaxOfMatch ==
  [][\A o \in ParserChunks :
       (Chunk(o) /\ progressMatch(o, impl) # NoMatch /\ NoMarker(o, impl))
         => Stores(Max(Lookup.progress, progressMatch(o, impl)))]_vars

Thresholds == {10, 25, 50, 75, 90}
\* C29: a chunk that shows download activity and changes nothing by a matched
\* percentage sets the progress p < 100 to the first threshold above p.
C29_StaircaseAbove ==
  [][\A o \in ParserChunks :
       (/\ Chunk(o)
        /\ Includes(o, DL)
        /\ NoMarker(o, impl)
        /\ Lookup.progress < 100
        /\ Max(Lookup.progress, progressMatch(o, impl)) = Lookup.progress)
         => \E t \in Thresholds :
              /\ t > Lookup.progress
              /\ \A u \in Thresholds : u > Lookup.progress => t <= u
              /\ Stores(t)]_vars

\* C30: a chunk with a 100% download marker, an 'already downloaded' marker, a
\* 'Merging formats' or a 'Deleting original file' marker leaves 100 as the
\* stored progress; a chunk with the destination marker leaves at least 5.
C30_MarkersForceProgress ==
  [][/\ \A o \in ParserChunks :
          Chunk(o) => /\ Forces100(o, impl) => Stores(100)
                      /\ Destination(o) => \E v \in 5..100 : Stores(v)
     /\ \A h \in BagToSet(pending) :
          (WriteDone(h) /\ db.status # "absent") => db'.progress = Head(h.writes)]_vars
C30_Witness ==
  /\ Lookup.status = "downloading"
  /\ Lookup.progress = 100
  /\ nChunks = 1
  /\ pending = EmptyBag

\* C31: a tick changes the progress only when the silence condition holds, and
\* every real progress update, a write of 100 forced by a post-processing
\* marker included, resets simulationStep to 0 and restarts the silence timer.
C31_RealUpdateResets ==
  [][/\ (Tick /\ <<pending, session>>' # <<pending, session>>) => silent
     /\ \A o \in Chunks :
          (Chunk(o) /\ ~isMongoDBAvailable /\ ParseWrites(o, session.progress, impl) # <<>>)
            => (simulationStep' = 0 /\ ~silent')
     /\ \A h \in BagToSet(pending) :
          (WriteDone(h) /\ (h.reset \/ Head(h.writes) = 100))
            => (simulationStep' = 0 /\ ~silent')]_vars

\* C32: however a tick and the chunk handlers interleave, a completed progress
\* write never leaves the stored progress lower than it was.
C32_NoRegressionByWrites ==
  [][\A h \in BagToSet(pending) :
       (WriteDone(h) /\ db.status # "absent") => db'.progress >= db.progress]_vars

\* C33: a session record with status downloading exists only when the
\* download process of the session has been spawned successfully.
C33_DownloadingOnlyAfterSpawn ==
  Lookup.status = "downloading" => proc \in {"running", "exited", "closed"}

\* C35: a retrieval cleanup whose unlink finds no file still deletes the
\* session record.
C35_CleanupToleratesMissingFile ==
  [][\A x \in BagToSet(streams) :
       (StreamEnd(x) /\ x.file \notin files)
         => IF isMongoDBAvailable
              THEN streams' = Add(Remove(streams, x), [x EXCEPT !.st = "deleting"])
              ELSE inMap' = FALSE]_vars

\* C36: once the expiry policy has removed the session record, no output file
\* of the session is left on disk.
C36_NoFileOutlivesSession ==
  (dayPassed /\ Lookup.status = "absent") => files = {}

\* C34: once the record of a session is gone (expired or retrieved), no later
\* progress write, tick or close/error finalization brings a record back, and
\* every poll is answered 404.
C34_RemovedStaysRemoved ==
  [][(pc # "idle" /\ Lookup = NoRec)
       => /\ Lookup' = NoRec
          /\ Poll => resp' = SessionNotFound("poll")]_vars
C34_Witness ==
  /\ pc = "started"
  /\ Lookup = NoRec
  /\ resp = SessionNotFound("poll")
  /\ closeH.pc = "done"
  /\ progressTimer
  /\ simulationStep > 0

C38_RejectedProbeLeavesNoTrace ==
  (impl = "atlas" /\ (videoInfo.outcome \in ProbeRejected \/ estimatedSize(quality, videoInfo) > MAX_FILE_SIZE))
    => /\ pc = "idle"
       /\ db = NoRec
       /\ ~inMap
       /\ files = {}
       /\ proc = "notspawned"
       /\ ~downloadTimeout /\ ~simDelay
       /\ resp.req = "post" => resp.code \in {400, 500}
C38_Witness ==
  /\ impl = "atlas"
  /\ videoInfo.outcome = "resolved"
  /\ quality = "audio"
  /\ estimatedSize(quality, videoInfo) > MAX_FILE_SIZE
  /\ resp = FileTooLarge

\* C39: at most one connection attempt is in flight and the callers that
\* return hold the same connection; once a connection is cached no attempt
\* is made; when the continuations of a failed attempt have run, the cached
\* promise is not that attempt's and every caller that waited on it threw;
\* the call that follows a failed attempt starts a fresh one.
C39_OneAttemptSharedByCallers ==
  [][/\ Cardinality({n \in 1..Len(attempts') : attempts'[n] = "pending"}) <= 1
     /\ \A c, d \in Callers :
          (callers'[c].pc = "returned" /\ callers'[d].pc = "returned")
            => (callers'[c].got = callers'[d].got /\ callers'[c].got = cached'.conn)
     /\ cached.conn # 0 => attempts' = attempts
     /\ jobs' = <<>> =>
          \A n \in 1..Len(attempts') : attempts'[n] = "rejected" =>
            /\ cached'.promise # n
            /\ \A c \in Callers : callers'[c].on = n => callers'[c].pc = "threw"
     /\ \A c \in Callers :
          (ConnectCall(c) /\ attempts # <<>> /\ Last(attempts) = "rejected")
            => (Len(attempts') = Len(attempts) + 1 /\ Last(attempts') = "pending"
                /\ cached'.promise = Len(attempts'))
    ]_vars
C39_Witness ==
  /\ Len(attempts) = 2
  /\ attempts[1] = "rejected"
  /\ attempts[2] = "resolved"
  /\ cached.conn = 2
  /\ \E c, d \in Callers : /\ c # d
                            /\ callers[c] = [pc |-> "returned", on |-> 2, got |-> 2]
                            /\ callers[d] = [pc |-> "returned", on |-> 2, got |-> 2]
  /\ \E c \in Callers : callers[c].pc = "threw"

\* C40: for one download of the page, the file is requested at most once and
\* only after a progress request returned completed; after a progress request
\* that returned completed or error, or that failed, none is in flight or
\* scheduled and none was made; after one that returned downloading the next
\* is scheduled or in flight.
C40_PollLoopEndsOnTerminal ==
  LET answers == client.answers
      polling == client.timer \/ client.pc = "progress"
  IN /\ client.retrievals <= 1
     /\ (client.retrievals = 1 \/ client.pc = "file")
          => (answers # <<>> /\ Last(answers).status = "completed")
     /\ \A i \in 1..(Len(answers) - 1) : answers[i].status = "downloading"
     /\ (answers # <<>> /\ Last(answers).status \in {"completed", "error", "failed"}) => ~polling
     /\ (answers # <<>> /\ Last(answers).status = "downloading") => polling
     /\ answers = <<>> => ~client.timer
C40_Witness ==
  /\ client.retrievals = 1
  /\ client.status = "completed"
  /\ Len(client.answers) >= 3
  /\ client.pc = "none"
  /\ ~client.timer

====
